---- MODULE Spec2Model ----
(***************************************************************************)
(* Booking registry of src/src/index.ts: the module-level array `bookings`,*)
(* the counter `nextId`, and the operations bookTicket, displayBookings,   *)
(* printSummary, cancelBooking and getBookingsByStatus.                    *)
(*                                                                         *)
(* Booking objects are JavaScript objects, so the array holds REFERENCES.  *)
(* The model keeps a heap of objects (heap[r] is the object at reference   *)
(* r) and the array `bookings` is a sequence of references into it.        *)
(* The value bookTicket returns, and the elements getBookingsByStatus      *)
(* hands to its callback, are such references.                             *)
(***************************************************************************)
EXTENDS Integers, Sequences, FiniteSets, TLC

VARIABLES heap, bookings, nextId, issued, last

vars == <<heap, bookings, nextId, issued, last>>

\* ---- bounds -------------------------------------------------------------
MaxBookings == 2

\* ---- input domains ------------------------------------------------------
Names == {"John Doe", "Jane Smith"}
Places == {"Paris", "Berlin"}
Routes == Places \X Places

\* An optional string (seatType?, mealPreference?): <<>> is undefined,
\* <<s>> is the string s.
None == <<>>
Some(s) == <<s>>
SeatTypes == {None, Some(""), Some("Business")}

BookingStatus == {"booked", "cancelled", "pending"}
TravelType == {"Flight", "Train", "Bus"}

IdArgs == 0 .. (MaxBookings + 1)

\* ---- helpers ------------------------------------------------------------
\* JavaScript truthiness of an optional string: undefined and "" are falsy.
Truthy(opt) == opt # None /\ opt[1] # ""

\* route[0] === route[1]
InvalidRouteAlways(route) == FALSE
InvalidRoute(route) == route[1] = route[2]

\* The object literal of bookTicket followed by the `if (seatType)` patch.
NewBookingPreIncrement(id, name, route, seatType) ==
    LET lit == [id |-> id + 1,
                name |-> name,
                route |-> route,
                travelType |-> "Flight",
                status |-> "booked",
                mealPreference |-> IF Truthy(seatType) THEN None ELSE Some("Vegetarian")]
    IN IF Truthy(seatType) THEN [lit EXCEPT !.mealPreference = seatType] ELSE lit
NewBookingPending(id, name, route, seatType) ==
    LET lit == [id |-> id,
                name |-> name,
                route |-> route,
                travelType |-> "Flight",
                status |-> "pending",
                mealPreference |-> IF Truthy(seatType) THEN None ELSE Some("Vegetarian")]
    IN IF Truthy(seatType) THEN [lit EXCEPT !.mealPreference = seatType] ELSE lit
NewBooking(id, name, route, seatType) ==
    LET lit == [id |-> id,
                name |-> name,
                route |-> route,
                travelType |-> "Flight",
                status |-> "booked",
                mealPreference |-> IF Truthy(seatType) THEN None ELSE Some("Vegetarian")]
    IN IF Truthy(seatType) THEN [lit EXCEPT !.mealPreference = seatType] ELSE lit

\* bookings.push(r)
PushFront(bs, r) == <<r>> \o bs
Push(bs, r) == Append(bs, r)

\* bookings.find(b => b.id === id): the index of the first element whose id
\* is id, 0 when there is none (undefined).
RECURSIVE FindFrom(_, _, _, _)
FindFrom(h, bs, id, i) ==
    IF i > Len(bs) THEN 0
    ELSE IF h[bs[i]].id = id THEN i
    ELSE FindFrom(h, bs, id, i + 1)

FindOrFirst(h, bs, id) ==
    LET i == FindFrom(h, bs, id, 1)
    IN IF i = 0 /\ Len(bs) > 0 THEN 1 ELSE i
Find(h, bs, id) == FindFrom(h, bs, id, 1)

\* booking.status = "cancelled"
SetCancelledToggle(b) ==
    [b EXCEPT !.status = IF b.status = "cancelled" THEN "booked" ELSE "cancelled"]
SetCancelled(b) == [b EXCEPT !.status = "cancelled"]

\* typeof bookingRef === 'number' ? bookingRef : bookingRef.id
\* A bookingRef is [type |-> "number", value |-> n] or
\* [type |-> "object", value |-> r] with r a reference to a Booking.
ResolveId(h, bookingRef) ==
    IF bookingRef.type = "number" THEN bookingRef.value
    ELSE h[bookingRef.value].id

\* The heap after cancelBooking(bookingRef).
CancelHeap(h, bs, bookingRef) ==
    LET i == Find(h, bs, ResolveId(h, bookingRef))
    IN IF i # 0 THEN [h EXCEPT ![bs[i]] = SetCancelled(h[bs[i]])] ELSE h

\* The statusCounts loop of printSummary.
RECURSIVE CountFrom(_, _, _, _)
CountFrom(h, bs, i, acc) ==
    IF i > Len(bs) THEN acc
    ELSE CountFrom(h, bs, i + 1,
                   [acc EXCEPT ![h[bs[i]].status] = acc[h[bs[i]].status] + 1])

StatusCountsSkipCancelled(h, bs) ==
    LET c == CountFrom(h, bs, 1, [booked |-> 0, cancelled |-> 0, pending |-> 0])
    IN [c EXCEPT !.cancelled = 0]
StatusCounts(h, bs) ==
    CountFrom(h, bs, 1, [booked |-> 0, cancelled |-> 0, pending |-> 0])

\* What printSummary reports: bookings.length and the three counts.
Summary(h, bs) == [total |-> Len(bs), counts |-> StatusCounts(h, bs)]

\* bookings.filter(booking => booking.status === status): a new array of the
\* same references, in order.
FilterByStatus(h, bs, status) == SelectSeq(bs, LAMBDA r : h[r].status = status)

\* The line printBooking writes, as the tuple of the interpolated values.
PrintBooking(b) ==
    [id |-> b.id, name |-> b.name, route |-> b.route, type |-> b.travelType,
     status |-> b.status,
     meal |-> IF Truthy(b.mealPreference) THEN b.mealPreference[1] ELSE "Not specified"]

\* One iteration of the bookingIds.forEach of displayBookings.
DisplayOne(h, bs, id) ==
    LET i == Find(h, bs, id)
    IN IF i # 0 THEN PrintBooking(h[bs[i]]) ELSE [notFound |-> id]

\* The records of the registry, in array order.
Registry == [i \in 1 .. Len(bookings) |-> heap[bookings[i]]]

\* ---- state --------------------------------------------------------------
Pre == [heap |-> heap, bookings |-> bookings, nextId |-> nextId]

Init ==
    /\ heap = <<>>
    /\ bookings = <<>>
    /\ nextId = 1
    /\ issued = <<>>
    /\ last = [op |-> "init", args |-> <<>>, result |-> "ok", ret |-> 0, pre |-> <<>>]

Rec(op, args, result, ret) ==
    [op |-> op, args |-> args, result |-> result, ret |-> ret, pre |-> Pre]

\* ---- operations ---------------------------------------------------------
\* bookTicket(name, route, seatType?): throws before anything is evaluated
\* when the route is invalid; otherwise allocates the object with id
\* nextId++, pushes its reference and returns that same reference.
BookTicketEagerId(name, route, seatType) ==
    IF InvalidRoute(route)
    THEN /\ nextId' = nextId + 1
         /\ last' = Rec("bookTicket", <<name, route, seatType>>, "error", 0)
         /\ UNCHANGED <<heap, bookings, issued>>
    ELSE /\ nextId <= MaxBookings
         /\ LET r == Len(heap) + 1
                b == NewBooking(nextId, name, route, seatType)
            IN /\ heap' = Append(heap, b)
               /\ bookings' = Push(bookings, r)
               /\ issued' = Append(issued, b.id)
               /\ last' = Rec("bookTicket", <<name, route, seatType>>, "ok", r)
         /\ nextId' = nextId + 1
BookTicket(name, route, seatType) ==
    IF InvalidRoute(route)
    THEN /\ last' = Rec("bookTicket", <<name, route, seatType>>, "error", 0)
         /\ UNCHANGED <<heap, bookings, nextId, issued>>
    ELSE /\ nextId <= MaxBookings
         /\ LET r == Len(heap) + 1
                b == NewBooking(nextId, name, route, seatType)
            IN /\ heap' = Append(heap, b)
               /\ bookings' = Push(bookings, r)
               /\ issued' = Append(issued, b.id)
               /\ last' = Rec("bookTicket", <<name, route, seatType>>, "ok", r)
         /\ nextId' = nextId + 1

\* displayBookings(...bookingIds): prints, changes nothing.
DisplayBookings(bookingIds) ==
    /\ last' = Rec("displayBookings", bookingIds, "ok",
                   IF Len(bookingIds) = 0
                   THEN [i \in 1 .. Len(bookings) |-> PrintBooking(heap[bookings[i]])]
                   ELSE [k \in 1 .. Len(bookingIds) |->
                            DisplayOne(heap, bookings, bookingIds[k])])
    /\ UNCHANGED <<heap, bookings, nextId, issued>>

\* printSummary(): prints the total and the per-status counts.
PrintSummary ==
    /\ last' = Rec("printSummary", <<>>, "ok", Summary(heap, bookings))
    /\ UNCHANGED <<heap, bookings, nextId, issued>>

\* cancelBooking(bookingRef)
CancelBooking(bookingRef) ==
    LET id == ResolveId(heap, bookingRef)
        i == Find(heap, bookings, id)
    IN /\ heap' = CancelHeap(heap, bookings, bookingRef)
       /\ last' = Rec("cancelBooking", bookingRef,
                      IF i # 0 THEN "ok" ELSE "notFound", id)
       /\ UNCHANGED <<bookings, nextId, issued>>

\* getBookingsByStatus(status, callback) with a callback that only reads
\* the array it is given.
GetBookingsByStatus(status) ==
    /\ last' = Rec("getBookingsByStatus", status, "ok",
                   FilterByStatus(heap, bookings, status))
    /\ UNCHANGED <<heap, bookings, nextId, issued>>

\* The caller assigns to a field of the object bookTicket returned to it:
\* the reference r is the very object the array holds.
CallerWrite(r, field, v) ==
    /\ r \in DOMAIN heap
    /\ heap' = [heap EXCEPT ![r] = [heap[r] EXCEPT ![field] = v]]
    /\ last' = Rec("callerWrite", <<r, field, v>>, "ok", r)
    /\ UNCHANGED <<bookings, nextId, issued>>

\* getBookingsByStatus(status, callback) with a callback that assigns to a
\* field of the first element of the array it is given.
GetBookingsByStatusWriting(status, field, v) ==
    LET result == FilterByStatus(heap, bookings, status)
    IN /\ Len(result) > 0
       /\ heap' = [heap EXCEPT ![result[1]] = [heap[result[1]] EXCEPT ![field] = v]]
       /\ last' = Rec("callbackWrite", <<status, field, v>>, "ok", result)
       /\ UNCHANGED <<bookings, nextId, issued>>

CancelArgs ==
    {[type |-> "number", value |-> n] : n \in IdArgs}
        \cup {[type |-> "object", value |-> r] : r \in DOMAIN heap}

\* displayBookings() with no id, with one id, and with the two ids 1, 2.
DisplayArgs == {<<>>, <<1, 2>>} \cup {<<id>> : id \in IdArgs}

CallerWrites ==
    {<<"status", st>> : st \in BookingStatus}
        \cup {<<"mealPreference", Some("Vegan")>>}

Next ==
    \/ \E name \in Names, route \in Routes, seatType \in SeatTypes :
           BookTicket(name, route, seatType)
    \/ \E bookingIds \in DisplayArgs : DisplayBookings(bookingIds)
    \/ PrintSummary
    \/ \E bookingRef \in CancelArgs : CancelBooking(bookingRef)
    \/ \E status \in BookingStatus : GetBookingsByStatus(status)

Spec == Init /\ [][Next]_vars

\* The same operations together with a caller that writes through the
\* references it was handed.
AliasNext ==
    \/ Next
    \/ \E r \in DOMAIN heap, w \in CallerWrites : CallerWrite(r, w[1], w[2])
    \/ \E status \in BookingStatus, w \in CallerWrites :
           GetBookingsByStatusWriting(status, w[1], w[2])

AliasSpec == Init /\ [][AliasNext]_vars

\* ---- properties ---------------------------------------------------------
IsOp(op) == last.op = op
Created == IsOp("bookTicket") /\ last.result = "ok"
Rejected == IsOp("bookTicket") /\ last.result = "error"
ReadOps == {"displayBookings", "printSummary", "getBookingsByStatus"}
StatusAt(h, bs, i) == h[bs[i]].status
\* The positions of the records of the registry <<h, bs>> whose id is id.
Matches(h, bs, id) == {i \in 1 .. Len(bs) : h[bs[i]].id = id}

\* C1: the k-th successful bookTicket returns id k: the first returns 1 and
\* each later one returns one more than the previous successful one,
\* whatever rejected bookTicket and cancelBooking calls came in between.
C1_SequentialIds ==
    /\ \A k \in 1 .. Len(issued) : issued[k] = k
    /\ Created => heap[last.ret].id = Len(issued)

\* A second booking gets id 2 although the first one has been cancelled.
C1_Witness ==
    /\ Created
    /\ Len(issued) = 2
    /\ heap[last.ret].id = 2
    /\ heap[bookings[1]].status = "cancelled"

\* C2: bookTicket throws exactly when route[0] equals route[1]; otherwise it
\* returns the new booking, which is the one record appended to the array.
C2_RejectsExactlySameEndpoints ==
    IsOp("bookTicket") =>
        /\ (last.result = "error") <=> (last.args[2][1] = last.args[2][2])
        /\ (last.result = "ok") <=> (last.args[2][1] # last.args[2][2])
        /\ last.result = "ok" =>
              /\ Len(bookings) = Len(last.pre.bookings) + 1
              /\ bookings[Len(bookings)] = last.ret
              /\ heap[last.ret].name = last.args[1]
              /\ heap[last.ret].route = last.args[2]

\* A rejected call on a non-empty registry and an accepted one both occur;
\* the witness is the accepted call made with a registry that already holds
\* a cancelled record.
C2_Witness ==
    /\ Created
    /\ Len(last.pre.bookings) = 1
    /\ StatusAt(last.pre.heap, last.pre.bookings, 1) = "cancelled"
    /\ last.args[3] = Some("Business")

\* C3: a booking made without a meal preference argument has mealPreference
\* "Vegetarian", and one made with an explicit string has exactly that
\* string, the empty string included.
C3_MealPreferenceAsSupplied ==
    Created =>
        /\ last.args[3] = None => heap[last.ret].mealPreference = Some("Vegetarian")
        /\ last.args[3] # None => heap[last.ret].mealPreference = last.args[3]

\* C4: cancelBooking of a number or a Booking whose id is in the registry
\* raises nothing, leaves that record cancelled, and a repeated call changes
\* nothing any more.
C4_CancelIdempotent ==
    /\ IsOp("cancelBooking") /\ Matches(last.pre.heap, last.pre.bookings, last.ret) # {} =>
          LET i == CHOOSE j \in Matches(last.pre.heap, last.pre.bookings, last.ret) : TRUE
          IN /\ last.result = "ok"
             /\ StatusAt(heap, bookings, i) = "cancelled"
             /\ last.args.type = "object" => bookings[i] = last.args.value
             /\ CancelHeap(heap, bookings, last.args) = heap
             /\ StatusAt(last.pre.heap, last.pre.bookings, i) = "cancelled"
                    => heap = last.pre.heap
    /\ \A a \in CancelArgs :
          CancelHeap(CancelHeap(heap, bookings, a), bookings, a)
              = CancelHeap(heap, bookings, a)

\* A Booking value is cancelled a second time.
C4_Witness ==
    /\ IsOp("cancelBooking")
    /\ last.args.type = "object"
    /\ last.result = "ok"
    /\ last.pre.heap[last.args.value].status = "cancelled"
    /\ heap[last.args.value].status = "cancelled"

\* C5: cancelBooking of an id no record has reports not-found, raises
\* nothing and leaves the array, every record and nextId as they were.
C5_CancelMissingIsNoOp ==
    IsOp("cancelBooking") /\ Matches(last.pre.heap, last.pre.bookings, last.ret) = {} =>
        /\ last.result = "notFound"
        /\ heap = last.pre.heap
        /\ bookings = last.pre.bookings
        /\ nextId = last.pre.nextId

\* A missing id is cancelled while the registry holds a booked record.
C5_Witness ==
    /\ IsOp("cancelBooking")
    /\ last.result = "notFound"
    /\ Len(bookings) = MaxBookings
    /\ \E i \in 1 .. Len(bookings) : StatusAt(heap, bookings, i) = "booked"

\* C6: in every reachable state the three counts of printSummary add up to
\* the total it reports, and each count is the number of records that have
\* that status.
C6_SummaryCounts ==
    LET s == Summary(heap, bookings)
    IN /\ s.total = Len(bookings)
       /\ s.counts["booked"] + s.counts["cancelled"] + s.counts["pending"] = s.total
       /\ \A st \in BookingStatus :
             s.counts[st] =
                 Cardinality({i \in 1 .. Len(bookings) : StatusAt(heap, bookings, i) = st})
       /\ IsOp("printSummary") => last.ret = s

\* printSummary reports one booked and one cancelled record.
C6_Witness ==
    /\ IsOp("printSummary")
    /\ last.ret.total = 2
    /\ last.ret.counts["booked"] = 1
    /\ last.ret.counts["cancelled"] = 1

\* C7: a record is created booked, no operation makes a record pending, the
\* only change of status is booked to cancelled and it is made by
\* cancelBooking; a cancelled record stays cancelled.
C7_StatusMachine ==
    /\ \A i \in 1 .. Len(bookings) : StatusAt(heap, bookings, i) \in {"booked", "cancelled"}
    /\ Created => last.pre.heap = SubSeq(heap, 1, Len(heap) - 1)
                     /\ heap[last.ret].status = "booked"
    /\ ~IsOp("init") =>
          \A r \in DOMAIN last.pre.heap :
              /\ last.pre.heap[r].status = "cancelled" => heap[r].status = "cancelled"
              /\ last.pre.heap[r].status # heap[r].status =>
                    /\ last.pre.heap[r].status = "booked"
                    /\ heap[r].status = "cancelled"
                    /\ IsOp("cancelBooking")

\* A booked record has just been cancelled next to one that stays booked.
C7_Witness ==
    /\ IsOp("cancelBooking")
    /\ \E r \in DOMAIN heap :
          last.pre.heap[r].status = "booked" /\ heap[r].status = "cancelled"
    /\ \E r \in DOMAIN heap : heap[r].status = "booked"

\* C8: the caller's Booking is a copy: writing a field of the value that
\* bookTicket returned or getBookingsByStatus delivered leaves the registry
\* as it was, and cancelBooking leaves the values callers hold as they were.
C8_CallerHoldsCopies ==
    /\ IsOp("callerWrite") \/ IsOp("callbackWrite") =>
          Registry = [i \in 1 .. Len(last.pre.bookings) |->
                         last.pre.heap[last.pre.bookings[i]]]
    /\ IsOp("cancelBooking") =>
          \A r \in DOMAIN last.pre.heap : heap[r] = last.pre.heap[r]

\* C9: records are never removed or moved, bookTicket appends one record,
\* id, name, route, travelType and mealPreference of a record never change,
\* travelType is Flight, cancelBooking changes at most the status of the
\* record it targets, and the three read operations change nothing.
C9_Frame ==
    /\ \A i \in 1 .. Len(bookings) : heap[bookings[i]].travelType = "Flight"
    /\ ~IsOp("init") =>
          /\ Len(bookings) >= Len(last.pre.bookings)
          /\ \A i \in 1 .. Len(last.pre.bookings) :
                /\ bookings[i] = last.pre.bookings[i]
                /\ [heap[bookings[i]] EXCEPT !.status = "booked"]
                       = [last.pre.heap[last.pre.bookings[i]] EXCEPT !.status = "booked"]
          /\ ~IsOp("cancelBooking") =>
                \A i \in 1 .. Len(last.pre.bookings) :
                    heap[bookings[i]] = last.pre.heap[last.pre.bookings[i]]
          /\ Len(bookings) # Len(last.pre.bookings) =>
                Created /\ Len(bookings) = Len(last.pre.bookings) + 1
          /\ ~IsOp("bookTicket") => nextId = last.pre.nextId
    /\ IsOp("cancelBooking") =>
          /\ bookings = last.pre.bookings
          /\ \A r \in DOMAIN heap :
                heap[r] # last.pre.heap[r] => heap[r].id = last.ret
    /\ last.op \in ReadOps =>
          /\ heap = last.pre.heap
          /\ bookings = last.pre.bookings
          /\ nextId = last.pre.nextId

\* A second record has been appended behind a cancelled first one.
C9_Witness ==
    /\ Created
    /\ Len(bookings) = 2
    /\ bookings[1] = last.pre.bookings[1]
    /\ StatusAt(heap, bookings, 1) = "cancelled"
    /\ heap[bookings[1]].mealPreference # heap[bookings[2]].mealPreference

\* C10: a bookTicket call rejected for its route appends nothing, alters no
\* record and does not advance nextId, so the next accepted call gets the id
\* it would have got anyway.
C10_RejectedCreateIsNoOp ==
    /\ Rejected =>
          /\ heap = last.pre.heap
          /\ bookings = last.pre.bookings
          /\ nextId = last.pre.nextId
    /\ Created => heap[last.ret].id = Len(last.pre.bookings) + 1
    /\ nextId = Len(bookings) + 1

\* A call is rejected while the registry already holds a record.
C10_Witness ==
    /\ Rejected
    /\ Len(bookings) = 1
    /\ nextId = 2
====
